---------------------------- MODULE Spec2Model ----------------------------
(***************************************************************************)
(* A model of jrnl's Entry (src/jrnl/Entry.py) and of its exporters        *)
(* (src/jrnl/exporters.py).                                                *)
(*                                                                         *)
(* Text is modelled at character level: a Python string is a sequence of   *)
(* one-character strings.  A JSON document is represented by the value it  *)
(* serialises (a record / function / sequence).                            *)
(***************************************************************************)
EXTENDS Integers, Sequences, FiniteSets, TLC

VARIABLES
    cfg,        \* journal.config: tagsymbols, linewrap (timeformat is fixed)
    entry,      \* the Entry object of the Entry machine (NoEntry before __init__)
    parsedText, \* history: title and body as they were when parse_tags last ran
                \* (.tags) and when parse_todos last ran (.todos)
    assigns,    \* history: number of direct assignments to title/body so far
    rendered,   \* value returned by the last call on entry
    journal,    \* journal.entries, the sequence the exporters iterate
    files,      \* the file system: path -> content of every regular file
    result      \* what the last exporter call returned or raised

vars == <<cfg, entry, parsedText, assigns, rendered, journal, files, result>>

----------------------------------------------------------------------------
(* Bounds of the model *)

\* most direct assignments to title/body on one Entry
MaxAssign == 2
\* longest journal
MaxEntries == 3

----------------------------------------------------------------------------
(* Characters and strings *)

Str(n, c) == [i \in 1..n |-> c]

RECURSIVE Flatten(_)
Flatten(ss) == IF ss = <<>> THEN <<>> ELSE Head(ss) \o Flatten(Tail(ss))

\* sep.join(list)
RECURSIVE Join(_, _)
Join(list, sep) ==
    IF list = <<>> THEN <<>>
    ELSE IF Len(list) = 1 THEN list[1]
    ELSE list[1] \o sep \o Join(Tail(list), sep)

Last(s) == s[Len(s)]
Front(s) == SubSeq(s, 1, Len(s) - 1)
Range(s) == {s[i] : i \in 1..Len(s)}

\* str.rstrip("\n ")
RECURSIVE RStrip(_)
RStrip(s) ==
    IF s # <<>> /\ Last(s) \in {"\n", " "} THEN RStrip(Front(s)) ELSE s

LowerChar(c) == CASE c = "A" -> "a" [] c = "B" -> "b" [] OTHER -> c

\* str.lower()
Lower(s) == [i \in 1..Len(s) |-> LowerChar(s[i])]

\* regex \s
IsSpace(c) == c \in {" ", "\n", "\t"}

Letters == {"a", "b", "c", "d", "A", "B"}
DigitChars == <<"0", "1", "2", "3", "4", "5", "6", "7", "8", "9">>

\* regex \w
IsWord(c) == c \in Letters \/ c \in Range(DigitChars) \/ c = "_"

\* the regex class [-+*#/\w]
IsTagChar(c) == c \in {"-", "+", "*", "#", "/"} \/ IsWord(c)

\* str.splitlines() on "\n"
RECURSIVE SplitLines(_)
SplitLines(s) ==
    IF s = <<>> THEN <<>>
    ELSE IF \E i \in 1..Len(s) : s[i] = "\n"
         THEN LET i == CHOOSE k \in 1..Len(s) :
                           s[k] = "\n" /\ \A m \in 1..(k-1) : s[m] # "\n"
              IN <<SubSeq(s, 1, i - 1)>> \o SplitLines(SubSeq(s, i + 1, Len(s)))
         ELSE <<s>>

----------------------------------------------------------------------------
(* Dates: datetime.strftime *)

Pad2(n) == <<DigitChars[(n \div 10) + 1], DigitChars[(n % 10) + 1]>>
Pad4(n) == Pad2(n \div 100) \o Pad2(n % 100)

\* strftime("%Y-%m-%d")
DateYmd(d) == Pad4(d.year) \o <<"-">> \o Pad2(d.month) \o <<"-">> \o Pad2(d.day)
\* strftime("%H:%M")
DateHm(d) == Pad2(d.hour) \o <<":">> \o Pad2(d.minute)
\* strftime(journal.config['timeformat']) for the timeformat "%Y-%m-%d %H:%M"
DateStr(d) == DateYmd(d) \o <<" ">> \o DateHm(d)

\* strftime("%B")
MonthName(m) ==
    CASE m = 1 -> <<"J","a","n","u","a","r","y">>
      [] m = 2 -> <<"F","e","b","r","u","a","r","y">>
      [] m = 3 -> <<"M","a","r","c","h">>
      [] m = 4 -> <<"A","p","r","i","l">>
      [] m = 5 -> <<"M","a","y">>
      [] m = 6 -> <<"J","u","n","e">>
      [] m = 7 -> <<"J","u","l","y">>
      [] m = 8 -> <<"A","u","g","u","s","t">>
      [] m = 9 -> <<"S","e","p","t","e","m","b","e","r">>
      [] m = 10 -> <<"O","c","t","o","b","e","r">>
      [] m = 11 -> <<"N","o","v","e","m","b","e","r">>
      [] m = 12 -> <<"D","e","c","e","m","b","e","r">>

----------------------------------------------------------------------------
(* Entry: tag extraction *)

\* Entry.get_fulltext: " " + " ".join([title, body]), lower-cased
GetFulltext(title, body) == Lower(<<" ">> \o title \o <<" ">> \o body)

\* The character class [{tags}] of Entry.tag_regex: tagsymbols is pasted
\* unescaped between the brackets, so a leading "^" negates the class.
InTagClass(tagsymbols, c) ==
    IF Len(tagsymbols) > 1 /\ Head(tagsymbols) = "^"
    THEN c \notin Range(Tail(tagsymbols))
    ELSE c \in Range(tagsymbols)

\* greedy [-+*#/\w]+ from position j: index of the last character it takes
RECURSIVE TagEnd(_, _)
TagEnd(text, j) ==
    IF j <= Len(text) /\ IsTagChar(text[j]) THEN TagEnd(text, j + 1) ELSE j - 1

\* re.findall(\s([{tags}][-+*#/\w]+), text): leftmost, non-overlapping
RECURSIVE FindAllFrom(_, _, _)
FindAllFrom(text, tagsymbols, i) ==
    IF i > Len(text) THEN <<>>
    ELSE IF /\ IsSpace(text[i])
            /\ i + 1 <= Len(text)
            /\ InTagClass(tagsymbols, text[i + 1])
            /\ TagEnd(text, i + 2) >= i + 2
         THEN <<SubSeq(text, i + 1, TagEnd(text, i + 2))>>
                  \o FindAllFrom(text, tagsymbols, TagEnd(text, i + 2) + 1)
         ELSE FindAllFrom(text, tagsymbols, i + 1)

\* Entry.parse_tags: the value stored in self.tags
ParseTags(title, body, tagsymbols) ==
    FindAllFrom(GetFulltext(title, body), tagsymbols, 1)

\* Todo.parse_entry_todos (jrnl/Todo.py): an external capability, a function
\* of the entry's text; its result is represented by the text it read.
ParseEntryTodos(title, body) == [todos_of |-> <<title, body>>]

----------------------------------------------------------------------------
(* textwrap.fill, as Entry.pprint uses it (text without hyphens or tabs) *)

RECURSIVE SumLen(_)
SumLen(chunks) == IF chunks = <<>> THEN 0 ELSE Len(Head(chunks)) + SumLen(Tail(chunks))

\* chunk.strip() == ''
IsBlank(chunk) == \A i \in 1..Len(chunk) : IsSpace(chunk[i])

\* TextWrapper._munge_whitespace: every whitespace character becomes a space
Munge(text) == [i \in 1..Len(text) |-> IF IsSpace(text[i]) THEN " " ELSE text[i]]

\* length of the maximal run of (non-)spaces that starts the text
RECURSIVE RunLen(_, _)
RunLen(text, i) ==
    IF i <= Len(text) /\ (text[i] = " ") = (text[1] = " ")
    THEN RunLen(text, i + 1) ELSE i - 1

\* TextWrapper._split: runs of whitespace and runs of non-whitespace
RECURSIVE SplitChunks(_)
SplitChunks(text) ==
    IF text = <<>> THEN <<>>
    ELSE <<SubSeq(text, 1, RunLen(text, 1))>>
             \o SplitChunks(SubSeq(text, RunLen(text, 1) + 1, Len(text)))

\* how many leading chunks fit in width, starting from cur_len
RECURSIVE FitCount(_, _, _)
FitCount(chunks, curLen, width) ==
    IF chunks # <<>> /\ curLen + Len(Head(chunks)) <= width
    THEN 1 + FitCount(Tail(chunks), curLen + Len(Head(chunks)), width)
    ELSE 0

\* TextWrapper._wrap_chunks with break_long_words
RECURSIVE WrapChunks(_, _, _, _, _, _)
WrapChunks(chunks, lines, fullWidth, initialIndent, subsequentIndent, dropWs) ==
    IF chunks = <<>> THEN lines
    ELSE
      LET indent == IF lines # <<>> THEN subsequentIndent ELSE initialIndent
          width == fullWidth - Len(indent)
          c1 == IF dropWs /\ IsBlank(Head(chunks)) /\ lines # <<>>
                THEN Tail(chunks) ELSE chunks
          n == FitCount(c1, 0, width)
          cur == SubSeq(c1, 1, n)
          rest == SubSeq(c1, n + 1, Len(c1))
          long == rest # <<>> /\ Len(Head(rest)) > width
          spaceLeft == IF width < 1 THEN 1 ELSE width - SumLen(cur)
          cur2 == IF long THEN Append(cur, SubSeq(Head(rest), 1, spaceLeft)) ELSE cur
          rest2 == IF long
                   THEN <<SubSeq(Head(rest), spaceLeft + 1, Len(Head(rest)))>> \o Tail(rest)
                   ELSE rest
          cur3 == IF dropWs /\ cur2 # <<>> /\ IsBlank(Last(cur2)) THEN Front(cur2) ELSE cur2
      IN IF cur3 # <<>>
         THEN WrapChunks(rest2, Append(lines, indent \o Flatten(cur3)),
                         fullWidth, initialIndent, subsequentIndent, dropWs)
         ELSE WrapChunks(rest2, lines,
                         fullWidth, initialIndent, subsequentIndent, dropWs)

\* textwrap.fill(text, width, initial_indent, subsequent_indent, drop_whitespace)
TextwrapFill(text, width, initialIndent, subsequentIndent, dropWs) ==
    Join(WrapChunks(SplitChunks(Munge(text)), <<>>, width,
                    initialIndent, subsequentIndent, dropWs), <<"\n">>)

----------------------------------------------------------------------------
(* Entry: construction and renderings *)

NoEntry == [none |-> TRUE]

\* Entry.__init__
NewEntry(c, date, title, body, starred) ==
    [date |-> date,
     title |-> RStrip(title),
     body |-> RStrip(body),
     tags |-> ParseTags(RStrip(title), RStrip(body), c.tagsymbols),
     todos |-> ParseEntryTodos(RStrip(title), RStrip(body)),
     starred |-> starred,
     modified |-> FALSE]

\* Entry.parse_tags: the assignment to self.tags
EntryParseTags(c, e) ==
    [e EXCEPT !.tags = ParseTags(e.title, e.body, c.tagsymbols)]

\* Entry.parse_todos: the assignment to self.todos
EntryParseTodos(e) ==
    [e EXCEPT !.todos = ParseEntryTodos(e.title, e.body)]

\* Entry.parse_data: parse_tags then parse_todos
ParseData(c, e) == EntryParseTodos(EntryParseTags(c, e))

\* Entry.__unicode__
EntryUnicode(c, e) ==
    LET title == DateStr(e.date) \o <<" ">> \o RStrip(e.title)
                     \o (IF e.starred THEN <<" ", "*">> ELSE <<>>)
        sep == IF RStrip(e.body) # <<>> THEN <<"\n">> ELSE <<>>
    IN title \o sep \o RStrip(e.body) \o <<"\n">>

\* the body line handed to textwrap.fill in Entry.pprint
WrapBodyLine(c, line) ==
    TextwrapFill(IF Len(line) = 0 THEN line \o <<" ">> ELSE line,
                 c.linewrap, <<"|", " ">>, <<"|", " ">>, FALSE)

\* a body longer than this is printed even when it is blank
BlankBodyLimit == 20

\* has_body of Entry.pprint
HasBody(e) == Len(e.body) > BlankBodyLimit \/ ~ \A i \in 1..Len(e.body) : e.body[i] \in {" ", "\n"}

\* Entry.pprint(short)
EntryPprint(c, e, short) ==
    LET wrapped == ~short /\ c.linewrap # 0
        title == IF wrapped
                 THEN TextwrapFill(DateStr(e.date) \o <<" ">> \o e.title,
                                   c.linewrap, <<>>, <<>>, TRUE)
                 ELSE DateStr(e.date) \o <<" ">> \o RStrip(e.title)
        lines == SplitLines(RStrip(e.body))
        body == IF wrapped
                THEN Join([i \in 1..Len(lines) |-> WrapBodyLine(c, lines[i])], <<"\n">>)
                ELSE RStrip(e.body)
    IN IF short THEN title
       ELSE title \o (IF HasBody(e) THEN <<"\n">> ELSE <<>>)
                  \o (IF HasBody(e) THEN body ELSE <<>>) \o <<"\n">>

\* Entry.to_md
EntryToMd(c, e) ==
    LET body == (IF e.body # <<>> THEN <<"\n", "\n">> ELSE <<>>) \o e.body
    IN <<"#", "#", "#", " ">> \o DateStr(e.date) \o <<",", " ">> \o e.title
           \o <<" ">> \o body \o <<" ">> \o <<"\n">>

----------------------------------------------------------------------------
(* The Entry machine: one Entry, constructed, assigned to, parsed, rendered *)

MkDate(y, m, d) == [year |-> y, month |-> m, day |-> d, hour |-> 9, minute |-> 30]

\* journal.config values: tagsymbols and linewrap (0: no wrapping; the
\* widths keep the date, a chunk of 10 characters, unbroken)
TagSymbolChoices == {<<"@">>, <<"^", "@">>}
LineWraps == {0, 12}
Configs == [tagsymbols : TagSymbolChoices, linewrap : LineWraps]

\* Titles and bodies handed to the constructor and assigned afterwards:
\* a tag at position 0, a tag after a word, a symbol not preceded by
\* whitespace, a repeated tag, trailing blanks and newlines.
Titles ==
    { <<>>,
      <<"@","A">>,
      <<"A"," ","@","A"," ">>,
      <<"A","@","A","\n">>,
      <<"@","A"," ","@","A">> }

\* Bodies: a tag after a newline, a short blank body, a blank body longer
\* than BlankBodyLimit, a body with a word longer than the wrapped width.
Bodies ==
    { <<>>,
      <<"A","\n","@","A","\n","\n">>,
      <<" ","\n"," ">>,
      Str(BlankBodyLimit + 1, " "),
      Str(11, "A") \o <<" "," ","A"," ","A","A","\n","\n","@","A"," ">> }

NoOutput == [op |-> "none"]

EntryInit ==
    /\ cfg \in Configs
    /\ entry = NoEntry
    /\ parsedText = <<>>
    /\ assigns = 0
    /\ rendered = NoOutput
    /\ journal = <<>>
    /\ files = <<>>
    /\ result = [kind |-> "none"]

\* e = Entry(journal, date, title, body, starred)
Construct(date, title, body, starred) ==
    /\ entry = NoEntry
    /\ entry' = NewEntry(cfg, date, title, body, starred)
    /\ parsedText' = [tags |-> <<RStrip(title), RStrip(body)>>,
                      todos |-> <<RStrip(title), RStrip(body)>>]
    /\ rendered' = NoOutput
    /\ UNCHANGED <<cfg, assigns, journal, files, result>>

\* e.title = t on an Entry whose title setter re-parses
AssignTitleReparse(t) ==
    /\ entry # NoEntry
    /\ assigns < MaxAssign
    /\ entry' = ParseData(cfg, [entry EXCEPT !.title = t])
    /\ assigns' = assigns + 1
    /\ rendered' = NoOutput
    /\ UNCHANGED <<cfg, parsedText, journal, files, result>>

\* e.title = t
AssignTitle(t) ==
    /\ entry # NoEntry
    /\ assigns < MaxAssign
    /\ entry' = [entry EXCEPT !.title = t]
    /\ assigns' = assigns + 1
    /\ rendered' = NoOutput
    /\ UNCHANGED <<cfg, parsedText, journal, files, result>>

\* e.body = b
AssignBody(b) ==
    /\ entry # NoEntry
    /\ assigns < MaxAssign
    /\ entry' = [entry EXCEPT !.body = b]
    /\ assigns' = assigns + 1
    /\ rendered' = NoOutput
    /\ UNCHANGED <<cfg, parsedText, journal, files, result>>

\* e.parse_data()
CallParseData ==
    /\ entry # NoEntry
    /\ entry' = ParseData(cfg, entry)
    /\ parsedText' = [tags |-> <<entry.title, entry.body>>,
                      todos |-> <<entry.title, entry.body>>]
    /\ rendered' = NoOutput
    /\ UNCHANGED <<cfg, assigns, journal, files, result>>

\* e.parse_tags(): stores the tags and returns them as a set
CallParseTags ==
    /\ entry # NoEntry
    /\ entry' = EntryParseTags(cfg, entry)
    /\ parsedText' = [parsedText EXCEPT !.tags = <<entry.title, entry.body>>]
    /\ rendered' = [op |-> "parse_tags", value |-> Range(entry'.tags)]
    /\ UNCHANGED <<cfg, assigns, journal, files, result>>

\* e.parse_todos(): stores the todos and returns them
CallParseTodos ==
    /\ entry # NoEntry
    /\ entry' = EntryParseTodos(entry)
    /\ parsedText' = [parsedText EXCEPT !.todos = <<entry.title, entry.body>>]
    /\ rendered' = [op |-> "parse_todos", value |-> entry'.todos]
    /\ UNCHANGED <<cfg, assigns, journal, files, result>>

\* e.__unicode__()
CallUnicode ==
    /\ entry # NoEntry
    /\ rendered' = [op |-> "unicode", text |-> EntryUnicode(cfg, entry)]
    /\ UNCHANGED <<cfg, entry, parsedText, assigns, journal, files, result>>

\* e.pprint(short)
CallPprint(short) ==
    /\ entry # NoEntry
    /\ rendered' = [op |-> "pprint", short |-> short, text |-> EntryPprint(cfg, entry, short)]
    /\ UNCHANGED <<cfg, entry, parsedText, assigns, journal, files, result>>

\* e.to_md()
CallToMd ==
    /\ entry # NoEntry
    /\ rendered' = [op |-> "to_md", text |-> EntryToMd(cfg, entry)]
    /\ UNCHANGED <<cfg, entry, parsedText, assigns, journal, files, result>>

EntryNext ==
    \/ \E t \in Titles, b \in Bodies, st \in BOOLEAN :
           Construct(MkDate(2023, 1, 5), t, b, st)
    \/ \E t \in Titles : AssignTitle(t)
    \/ \E b \in Bodies : AssignBody(b)
    \/ CallParseData
    \/ CallParseTags
    \/ CallParseTodos
    \/ CallUnicode
    \/ \E short \in BOOLEAN : CallPprint(short)
    \/ CallToMd

EntrySpec == EntryInit /\ [][EntryNext]_vars

----------------------------------------------------------------------------
(* Exporters: the helpers the journal gives them *)

\* Todo.to_item_format and Todo.to_dict (jrnl/Todo.py): a todo is a display
\* line and a completion flag
ToItemFormat(todo) == todo.item
TodoToDict(todo) == [text |-> todo.item, is_complete |-> todo.is_complete]

\* Entry.to_dict
EntryToDict(e) ==
    [title |-> e.title,
     body |-> e.body,
     date |-> DateYmd(e.date),
     time |-> DateHm(e.date),
     todos |-> [i \in 1..Len(e.todos) |-> TodoToDict(e.todos[i])],
     starred |-> e.starred]

\* Journal.pprint (jrnl/Journal.py): every entry's pprint, in journal
\* order, joined by newlines
JournalPprint(c, j) == Join([i \in 1..Len(j) |-> EntryPprint(c, j[i], FALSE)], <<"\n">>)

IsAlnum(ch) == ch \in Letters \/ ch \in Range(DigitChars)

\* util.slugify (jrnl/util.py): lower-cased, every run of non-alphanumeric
\* characters collapsed to one separator
RECURSIVE Slugify(_)
Slugify(t) ==
    IF t = <<>> THEN <<>>
    ELSE IF IsAlnum(Head(t)) THEN <<LowerChar(Head(t))>> \o Slugify(Tail(t))
    ELSE IF Len(t) > 1 /\ ~IsAlnum(t[2]) THEN Slugify(Tail(t))
    ELSE <<"-">> \o Slugify(Tail(t))

\* a set in some iteration order
RECURSIVE SetToSeq(_)
SetToSeq(S) ==
    IF S = {} THEN <<>>
    ELSE LET x == CHOOSE y \in S : TRUE IN <<x>> \o SetToSeq(S \ {x})

\* list.count(x)
RECURSIVE Count(_, _)
Count(list, x) ==
    IF list = <<>> THEN 0
    ELSE (IF Head(list) = x THEN 1 ELSE 0) + Count(Tail(list), x)

----------------------------------------------------------------------------
(* Exporters: aggregation *)

\* get_tags_count without set(): every occurrence in an entry is counted
GetTagsCountAllOccurrences(j) ==
    LET tags == Flatten([i \in 1..Len(j) |-> j[i].tags])
    IN {<<Count(tags, tags[k]), tags[k]>> : k \in 1..Len(tags)}

\* get_tags_count: the set of (count, tag)
GetTagsCount(j) ==
    LET tags == Flatten([i \in 1..Len(j) |-> SetToSeq(Range(j[i].tags))])
    IN {<<Count(tags, tags[k]), tags[k]>> : k \in 1..Len(tags)}

\* get_todos
GetTodos(j) == Flatten([i \in 1..Len(j) |-> j[i].todos])

\* the loop of to_todo_list with the two appends swapped
RECURSIVE PartitionTodosSwapped(_, _, _)
PartitionTodosSwapped(todos, pending, completed) ==
    IF todos = <<>> THEN <<pending, completed>>
    ELSE IF Head(todos).is_complete
         THEN PartitionTodosSwapped(Tail(todos), Append(pending, Head(todos)), completed)
         ELSE PartitionTodosSwapped(Tail(todos), pending, Append(completed, Head(todos)))

\* the loop of to_todo_list: <<pending_todos, completed_todos>>
RECURSIVE PartitionTodos(_, _, _)
PartitionTodos(todos, pending, completed) ==
    IF todos = <<>> THEN <<pending, completed>>
    ELSE IF Head(todos).is_complete
         THEN PartitionTodos(Tail(todos), pending, Append(completed, Head(todos)))
         ELSE PartitionTodos(Tail(todos), Append(pending, Head(todos)), completed)

\* appendable_header of to_todo_list
AppendableHeader(text) ==
    Str(Len(text), "=") \o <<"\n">> \o text \o <<"\n">> \o Str(Len(text), "=") \o <<"\n">>

\* appendable_todo_list of to_todo_list
AppendableTodoList(todoList) ==
    Join([i \in 1..Len(todoList) |-> ToItemFormat(todoList[i])], <<"\n">>)

PendingText == <<"P","e","n","d","i","n","g">>
CompletedText == <<"C","o","m","p","l","e","t","e","d">>
NoTodosText == <<"[No todos found in journal.]">>

\* to_todo_list
ToTodoList(j) ==
    LET todos == GetTodos(j)
        parts == PartitionTodos(todos, <<>>, <<>>)
    IN IF todos = <<>> THEN NoTodosText
       ELSE AppendableHeader(PendingText) \o AppendableTodoList(parts[1])
                \o <<"\n", "\n">> \o AppendableHeader(CompletedText)
                \o AppendableTodoList(parts[2])

\* the loop of to_json without entry_id += 1
RECURSIVE EntryDictsSameId(_, _)
EntryDictsSameId(j, entryId) ==
    IF j = <<>> THEN <<>>
    ELSE <<EntryToDict(Head(j)) @@ [id |-> entryId]>> \o EntryDictsSameId(Tail(j), entryId)

\* the loop of to_json: entry_dicts, ids counted from entry_id
RECURSIVE EntryDicts(_, _)
EntryDicts(j, entryId) ==
    IF j = <<>> THEN <<>>
    ELSE <<EntryToDict(Head(j)) @@ [id |-> entryId]>> \o EntryDicts(Tail(j), entryId + 1)

\* the dict result of to_json
JsonDocument(j) ==
    LET tags == GetTagsCount(j)
        todos == GetTodos(j)
    IN [tags |-> [t \in {p[2] : p \in tags} |-> CHOOSE n \in 0..Len(j) : <<n, t>> \in tags],
        todos |-> [i \in 1..Len(todos) |-> TodoToDict(todos[i])],
        entries |-> EntryDicts(j, 1)]

\* to_json: json.dumps(result), a text of one token, the document
ToJson(j) == <<JsonDocument(j)>>

\* the loop of to_md with month reset whenever the year changes
RECURSIVE ToMdOutMonthPerYear(_, _, _, _)
ToMdOutMonthPerYear(c, j, year, month) ==
    IF j = <<>> THEN <<>>
    ELSE LET e == Head(j)
             newYear == e.date.year # year
             newMonth == newYear \/ e.date.month # month
         IN (IF newYear
             THEN <<Pad4(e.date.year), Str(Len(Pad4(e.date.year)), "=") \o <<"\n">> >>
             ELSE <<>>)
            \o (IF newMonth
                THEN <<MonthName(e.date.month),
                       Str(Len(MonthName(e.date.month)), "-") \o <<"\n">> >>
                ELSE <<>>)
            \o <<EntryToMd(c, e)>>
            \o ToMdOutMonthPerYear(c, Tail(j), e.date.year, e.date.month)

\* the loop of to_md: the list out, with the running year and month
RECURSIVE ToMdOut(_, _, _, _)
ToMdOut(c, j, year, month) ==
    IF j = <<>> THEN <<>>
    ELSE LET e == Head(j)
             newYear == e.date.year # year
             newMonth == e.date.month # month
         IN (IF newYear
             THEN <<Pad4(e.date.year), Str(Len(Pad4(e.date.year)), "=") \o <<"\n">> >>
             ELSE <<>>)
            \o (IF newMonth
                THEN <<MonthName(e.date.month),
                       Str(Len(MonthName(e.date.month)), "-") \o <<"\n">> >>
                ELSE <<>>)
            \o <<EntryToMd(c, e)>>
            \o ToMdOut(c, Tail(j), e.date.year, e.date.month)

\* to_md
ToMd(c, j) == Join(ToMdOut(c, j, -1, -1), <<"\n">>)

\* to_txt
ToTxt(c, j) == JournalPprint(c, j)

----------------------------------------------------------------------------
(* Exporters: export and write_files over a file system *)

JSON == <<"j","s","o","n">>
TXT == <<"t","x","t">>
TEXT == <<"t","e","x","t">>
MD == <<"m","d">>
MARKDOWN == <<"m","a","r","k","d","o","w","n">>
PDF == <<"p","d","f">>

\* the keys of maps in export
ValidFormats == {JSON, TXT, TEXT, MD, MARKDOWN}

\* maps[format](journal)
Aggregate(c, j, format) ==
    CASE format = JSON -> ToJson(j)
      [] format \in {TXT, TEXT} -> ToTxt(c, j)
      [] format \in {MD, MARKDOWN} -> ToMd(c, j)

\* output arguments: None, an existing directory, a file path
OutNone == <<>>
Dir == <<"d">>
OutFile == <<"f">>
IsDir(path) == path = Dir

\* The environment's I/O faults.  NoFault: every open and write succeeds.
\* Otherwise the at-th file written by the call fails, either in open (the
\* file is left as it was) or in write (open has truncated it and only a
\* proper prefix of the content, none or all but the end, reached it).
NoFault == [at |-> 0, stage |-> "none", partial |-> "none"]
Faults(n) == {NoFault}
                 \cup [at : 1..n, stage : {"open"}, partial : {"none"}]
                 \cup [at : 1..n, stage : {"write"}, partial : {"empty", "most"}]

StrError(fault) ==
    IF fault.stage = "open" THEN <<"Permission denied">> ELSE <<"No space left on device">>

\* what a failed write leaves in the file
Partial(content, fault) ==
    IF fault.partial = "most" THEN Front(content) ELSE <<>>

\* the file system after f = codecs.open(path, "w", "utf-8"); f.write(content)
WriteFile(fs, path, content, fault) ==
    IF fault.stage = "open" THEN fs
    ELSE [q \in DOMAIN fs \cup {path} |->
             IF q = path
             THEN (IF fault.stage = "write" THEN Partial(content, fault) ELSE content)
             ELSE fs[q]]

\* make_filename of write_files
MakeFilename(e, format) ==
    DateYmd(e.date) \o <<"_">> \o Slugify(e.title) \o <<".">> \o format

\* os.path.join(path, make_filename(e))
FullPath(path, e, format) == path \o <<"/">> \o MakeFilename(e, format)

\* the content write_files gives the file of entry e
FileContent(c, e, format) ==
    CASE format = JSON -> <<EntryToDict(e), "\n">>
      [] format \in {MD, MARKDOWN} -> EntryToMd(c, e)
      [] format \in {TXT, TEXT} -> EntryUnicode(c, e)

\* the loop of write_files catching the IOError of a file and going on
RECURSIVE WriteLoopKeepGoing(_, _, _, _, _, _, _)
WriteLoopKeepGoing(c, j, fs, path, format, fault, i) ==
    IF i > Len(j)
    THEN [files |-> fs, raised |-> IF fault.at # 0 THEN "IOError" ELSE "none"]
    ELSE IF ~IsDir(path) \/ (fault.at = i /\ fault.stage = "open")
         THEN WriteLoopKeepGoing(c, j, fs, path, format, fault, i + 1)
    ELSE IF format \notin ValidFormats
         THEN [files |-> WriteFile(fs, FullPath(path, j[i], format), <<>>, NoFault),
               raised |-> "UnboundLocalError"]
    ELSE WriteLoopKeepGoing(c, j,
                            WriteFile(fs, FullPath(path, j[i], format),
                                      FileContent(c, j[i], format),
                                      IF fault.at = i THEN fault ELSE NoFault),
                            path, format, fault, i + 1)

\* the loop of write_files from entry i on: the file system it leaves and
\* the exception that left the loop ("none": it ran to its end).  open
\* fails in a path that is no directory, or when the environment says so;
\* content is bound only for the formats of the if/elif chain, so for any
\* other format the file is opened (created or truncated) and reading
\* content in f.write(content) raises UnboundLocalError.
RECURSIVE WriteLoop(_, _, _, _, _, _, _)
WriteLoop(c, j, fs, path, format, fault, i) ==
    IF i > Len(j) THEN [files |-> fs, raised |-> "none"]
    ELSE IF ~IsDir(path) \/ (fault.at = i /\ fault.stage = "open")
         THEN [files |-> fs, raised |-> "IOError"]
    ELSE IF format \notin ValidFormats
         THEN [files |-> WriteFile(fs, FullPath(path, j[i], format), <<>>, NoFault),
               raised |-> "UnboundLocalError"]
    ELSE IF fault.at = i
         THEN [files |-> WriteFile(fs, FullPath(path, j[i], format),
                                   FileContent(c, j[i], format), fault),
               raised |-> "IOError"]
         ELSE WriteLoop(c, j,
                        WriteFile(fs, FullPath(path, j[i], format),
                                  FileContent(c, j[i], format), NoFault),
                        path, format, fault, i + 1)

\* write_files
WriteFiles(c, j, fs, path, format, fault) ==
    LET done == WriteLoop(c, j, fs, path, format, fault, 1)
    IN IF done.raised # "none"
       THEN [files |-> done.files, kind |-> "raised", value |-> <<done.raised>>]
       ELSE [files |-> done.files, kind |-> "returned",
             value |-> <<"[Journal exported individual files in ">> \o path \o <<"]">>]

\* export, once the format is known to be a key of maps
ExportValid(c, j, fs, format, output, fault) ==
    IF output # OutNone /\ IsDir(output)
    THEN WriteFiles(c, j, fs, output, format, fault)
    ELSE IF output # OutNone
    THEN IF fault.at = 0
         THEN [files |-> WriteFile(fs, output, Aggregate(c, j, format), NoFault),
               kind |-> "returned",
               value |-> <<"[Journal exported to ">> \o output \o <<"]">>]
         ELSE [files |-> WriteFile(fs, output, Aggregate(c, j, format), fault),
               kind |-> "returned",
               value |-> <<"[ERROR: ">>
                             \o (IF fault.stage = "open" THEN output ELSE <<"None">>)
                             \o <<" ">> \o StrError(fault) \o <<"]">>]
    ELSE [files |-> fs, kind |-> "returned", value |-> Aggregate(c, j, format)]

ValidOptionsText == "'. Valid options are 'md', 'txt', and 'json']"

\* export with the directory branch taken before the format is checked
ExportDirFirst(c, j, fs, format, output, fault) ==
    IF output # OutNone /\ IsDir(output)
    THEN WriteFiles(c, j, fs, output, format, fault)
    ELSE IF format \notin ValidFormats
    THEN [files |-> fs, kind |-> "returned",
          value |-> <<"[ERROR: can't export to '">> \o format \o <<ValidOptionsText>>]
    ELSE ExportValid(c, j, fs, format, output, fault)

\* export: the file system it leaves and what it returns or raises
Export(c, j, fs, format, output, fault) ==
    IF format \notin ValidFormats
    THEN [files |-> fs, kind |-> "returned",
          value |-> <<"[ERROR: can't export to '">> \o format \o <<ValidOptionsText>>]
    ELSE ExportValid(c, j, fs, format, output, fault)

----------------------------------------------------------------------------
(* The export machine: one exporter call on a journal and a file system *)

\* a journal entry: Entry.__init__, with the todos the Todo capability found
JournalEntry(c, date, title, body, starred, todos) ==
    [NewEntry(c, date, title, body, starred) EXCEPT !.todos = todos]

Todo(item, isComplete) == [item |-> item, is_complete |-> isComplete]

\* The entries journals are made of: two of the same day whose titles
\* slugify alike, a later day of that month, another month, another year
\* with the month of the first.
EntryPool(c) ==
    { JournalEntry(c, MkDate(2023, 1, 5), <<"A"," ","@","A">>, <<"@","A">>, FALSE,
                   <<Todo(<<"a">>, FALSE), Todo(<<"b">>, TRUE)>>),
      JournalEntry(c, MkDate(2023, 1, 5), <<"A"," "," ","A">>, <<"b">>, TRUE, <<>>),
      JournalEntry(c, MkDate(2023, 1, 20), <<"B">>, <<"@","B"," ","@","A">>, FALSE,
                   <<Todo(<<"c">>, TRUE)>>),
      JournalEntry(c, MkDate(2023, 2, 1), <<"@","B">>, <<>>, FALSE,
                   <<Todo(<<"a">>, FALSE)>>),
      JournalEntry(c, MkDate(2022, 1, 5), <<"A"," ","@","A">>, <<>>, FALSE, <<>>) }

Journals(c) == UNION {[1..n -> EntryPool(c)] : n \in 0..MaxEntries}

ExportConfigs == [tagsymbols : {<<"@">>}, linewrap : LineWraps]

\* the directory is empty, or holds a file an earlier export left
OldFile == <<"d","/","2","0","2","3","-","0","1","-","0","5","_","a","-","a",".","m","d">>
InitialFiles == {<<>>, [q \in {OldFile} |-> <<"o","l","d">>]}

Formats == ValidFormats \cup {PDF, <<"M","D">>}

NoCall == [fn |-> "none", format |-> <<>>, output |-> <<>>, fault |-> NoFault]
NoResult == [kind |-> "none", call |-> NoCall, value |-> <<>>, before |-> <<>>]

Init ==
    /\ cfg \in ExportConfigs
    /\ journal \in Journals(cfg)
    /\ files \in InitialFiles
    /\ result = NoResult
    /\ entry = NoEntry
    /\ parsedText = <<>>
    /\ assigns = 0
    /\ rendered = NoOutput

\* get_tags_count(journal)
CallGetTagsCount ==
    /\ result = NoResult
    /\ result' = [kind |-> "returned",
                  call |-> [NoCall EXCEPT !.fn = "get_tags_count"],
                  value |-> GetTagsCount(journal),
                  before |-> files]
    /\ UNCHANGED <<cfg, entry, parsedText, assigns, rendered, journal, files>>

\* to_todo_list(journal)
CallToTodoList ==
    /\ result = NoResult
    /\ result' = [kind |-> "returned",
                  call |-> [NoCall EXCEPT !.fn = "to_todo_list"],
                  value |-> ToTodoList(journal),
                  before |-> files]
    /\ UNCHANGED <<cfg, entry, parsedText, assigns, rendered, journal, files>>

\* export(journal, format, output), under the environment's fault
CallExport(format, output, fault) ==
    /\ result = NoResult
    /\ LET done == Export(cfg, journal, files, format, output, fault)
       IN /\ files' = done.files
          /\ result' = [kind |-> done.kind,
                        call |-> [fn |-> "export", format |-> format,
                                  output |-> output, fault |-> fault],
                        value |-> done.value,
                        before |-> files]
    /\ UNCHANGED <<cfg, entry, parsedText, assigns, rendered, journal>>

\* write_files(journal, path, format) called directly, under the
\* environment's fault
CallWriteFiles(path, format, fault) ==
    /\ result = NoResult
    /\ LET done == WriteFiles(cfg, journal, files, path, format, fault)
       IN /\ files' = done.files
          /\ result' = [kind |-> done.kind,
                        call |-> [fn |-> "write_files", format |-> format,
                                  output |-> path, fault |-> fault],
                        value |-> done.value,
                        before |-> files]
    /\ UNCHANGED <<cfg, entry, parsedText, assigns, rendered, journal>>

\* the faults that can touch a direct call of write_files: those of an
\* existing directory's files (a path that is no directory fails by itself)
WriteFaultsOf(path) ==
    IF IsDir(path) THEN Faults(Len(journal)) ELSE {NoFault}

\* the faults that can touch a call: none unless it writes, one file on the
\* single-file path, any entry's file on the directory path
FaultsOf(format, output) ==
    IF format \notin ValidFormats \/ output = OutNone THEN {NoFault}
    ELSE IF IsDir(output) THEN Faults(Len(journal))
    ELSE Faults(1)

Next ==
    \/ CallGetTagsCount
    \/ CallToTodoList
    \/ \E format \in Formats, output \in {OutNone, Dir, OutFile} :
           \E fault \in FaultsOf(format, output) : CallExport(format, output, fault)
    \/ \E path \in {Dir, OutFile}, format \in Formats :
           \E fault \in WriteFaultsOf(path) : CallWriteFiles(path, format, fault)

Spec == Init /\ [][Next]_vars

----------------------------------------------------------------------------
(* Properties of the exporters *)

Called(fn) == result.kind # "none" /\ result.call.fn = fn

\* export(journal, format) returned the aggregated text
Aggregated(formats) ==
    /\ Called("export")
    /\ result.call.format \in formats
    /\ result.call.output = OutNone

\* the headings the rule "a year heading when the year differs from the
\* preceding entry's, a month heading when the month does" puts before entry i
HeadingsBefore(j, i) ==
    (IF i = 1 \/ j[i].date.year # j[i - 1].date.year
     THEN <<Pad4(j[i].date.year), <<"=","=","=","=","\n">> >>
     ELSE <<>>)
    \o (IF i = 1 \/ j[i].date.month # j[i - 1].date.month
        THEN <<MonthName(j[i].date.month),
               Str(Len(MonthName(j[i].date.month)), "-") \o <<"\n">> >>
        ELSE <<>>)

ExpectedMdOut(c, j) ==
    Flatten([i \in 1..Len(j) |-> HeadingsBefore(j, i) \o <<EntryToMd(c, j[i])>>])

\* C1: the Markdown export is, joined by newlines and in journal order,
\* every entry's block preceded by a year heading exactly when the entry is
\* the first or its year differs from the preceding entry's (one heading per
\* maximal run of a year) and by a month heading exactly when it is the
\* first or its month differs from the preceding entry's.
C1_MdHeadings ==
    Aggregated({MD, MARKDOWN}) =>
        result.value = Join(ExpectedMdOut(cfg, journal), <<"\n">>)

\* a year change with the month unchanged, then a month change inside a year
C1_Witness ==
    /\ Aggregated({MD, MARKDOWN})
    /\ Len(journal) = 3
    /\ journal[1].date.year # journal[2].date.year
    /\ journal[1].date.month = journal[2].date.month
    /\ journal[2].date.year = journal[3].date.year
    /\ journal[2].date.month # journal[3].date.month

AllTags(j) == UNION {Range(j[i].tags) : i \in 1..Len(j)}
EntriesWith(j, t) == {i \in 1..Len(j) : t \in Range(j[i].tags)}

\* C2: get_tags_count returns one (count, tag) pair per distinct tag, the
\* count being the number of entries whose tags contain it; the tags
\* mapping of the JSON export carries the same counts.
C2_TagCounts ==
    /\ Called("get_tags_count") =>
           result.value = {<<Cardinality(EntriesWith(journal, t)), t>> : t \in AllTags(journal)}
    /\ Aggregated({JSON}) =>
           /\ DOMAIN result.value[1].tags = AllTags(journal)
           /\ \A t \in AllTags(journal) :
                  result.value[1].tags[t] = Cardinality(EntriesWith(journal, t))

\* a tag repeated inside one entry and present in another entry too
C2_Witness ==
    /\ Called("get_tags_count")
    /\ \E i \in 1..Len(journal), t \in AllTags(journal) :
           /\ Count(journal[i].tags, t) > 1
           /\ Cardinality(EntriesWith(journal, t)) > 1

\* C3: the entries list of the JSON export has one element per journal
\* entry, in journal order, the element at position i (from 1) being that
\* entry's dict with id = i, whatever the order of the journal.
C3_SequentialIds ==
    Aggregated({JSON}) =>
        /\ Len(result.value[1].entries) = Len(journal)
        /\ \A i \in 1..Len(journal) :
               /\ result.value[1].entries[i].id = i
               /\ result.value[1].entries[i] = EntryToDict(journal[i]) @@ [id |-> i]

\* three different entries, not in date order
C3_Witness ==
    /\ Aggregated({JSON})
    /\ Len(journal) = 3
    /\ journal[1] # journal[2] /\ journal[2] # journal[3] /\ journal[1] # journal[3]
    /\ journal[1].date.year > journal[2].date.year

\* per-file export ran to its end
WroteFiles ==
    /\ Called("export")
    /\ result.call.format \in ValidFormats
    /\ result.call.output = Dir
    /\ result.call.fault = NoFault

ExtensionOf(format) ==
    CASE format = JSON -> JSON
      [] format \in {MD, MARKDOWN} -> MD
      [] format \in {TXT, TEXT} -> TXT

EndsWith(text, suffix) ==
    /\ Len(text) >= Len(suffix)
    /\ SubSeq(text, Len(text) - Len(suffix) + 1, Len(text)) = suffix

\* C4: per-file export names the file of every entry
\* <YYYY-MM-DD>_<slug>.<ext> with ext json for json, md for md and markdown,
\* txt for txt and text, and every file it writes has that extension.
C4_FileExtension ==
    WroteFiles =>
        /\ \A i \in 1..Len(journal) :
               (Dir \o <<"/">> \o DateYmd(journal[i].date) \o <<"_">>
                    \o Slugify(journal[i].title) \o <<".">>
                    \o ExtensionOf(result.call.format)) \in DOMAIN files
        /\ \A q \in DOMAIN files \ DOMAIN result.before :
               EndsWith(q, <<".">> \o ExtensionOf(result.call.format))

Contains(text, part) ==
    \E i \in 1..(Len(text) - Len(part) + 1) : SubSeq(text, i, i + Len(part) - 1) = part

\* C5: for a format outside json, txt, text, md, markdown, export returns
\* (raises nothing) an error message that contains the format and lists the
\* valid options, and leaves every file as it was, whatever output is.
C5_UnknownFormat ==
    (Called("export") /\ result.call.format \notin ValidFormats) =>
        /\ result.kind = "returned"
        /\ Head(result.value) = "[ERROR: can't export to '"
        /\ Contains(result.value, result.call.format)
        /\ Last(result.value) = ValidOptionsText
        /\ files = result.before

\* an unknown format with a directory as output, a journal to write and a
\* file already in the directory
C5_Witness ==
    /\ Called("export")
    /\ result.call.format = PDF
    /\ result.call.output = Dir
    /\ journal # <<>>
    /\ files # <<>>

\* per-file export failed on entry k
FailedAt(k) ==
    /\ Called("export")
    /\ result.call.format \in ValidFormats
    /\ result.call.output = Dir
    /\ result.call.fault.at = k
    /\ k \in 1..Len(journal)

PathOf(i) == FullPath(Dir, journal[i], result.call.format)
ContentOf(i) == FileContent(cfg, journal[i], result.call.format)
Unwritten(q) ==
    /\ (q \in DOMAIN files) = (q \in DOMAIN result.before)
    /\ q \in DOMAIN files => files[q] = result.before[q]
IsProperPrefix(text, full) ==
    Len(text) < Len(full) /\ text = SubSeq(full, 1, Len(text))
WritersBefore(q, k) == {i \in 1..(k - 1) : PathOf(i) = q}
LastOf(S) == CHOOSE i \in S : \A m \in S : m <= i

\* the single-file path failed
SingleFileFailed ==
    /\ Called("export")
    /\ result.call.format \in ValidFormats
    /\ result.call.output = OutFile
    /\ result.call.fault.at # 0

\* C6 as stated: when the write of entry k's file fails the error leaves
\* export, the files of entries 1..k-1 hold their full content, no file of
\* a later entry is written; a failure on the single-file path is returned
\* as an error message.
C6_FilesBeforeFailure ==
    /\ \A k \in 1..Len(journal) :
           FailedAt(k) =>
               /\ result.kind = "raised"
               /\ \A i \in 1..(k - 1) :
                      PathOf(i) \in DOMAIN files /\ files[PathOf(i)] = ContentOf(i)
               /\ \A i \in (k + 1)..Len(journal) : Unwritten(PathOf(i))
    /\ SingleFileFailed =>
           result.kind = "returned" /\ Head(result.value) = "[ERROR: "

\* C6, amended: when the write of entry k's file fails the error leaves
\* export (no message, no confirmation); every path written for entries
\* 1..k-1 holds the full content of the last of them that has this path
\* (entries of the same day whose titles slugify alike share one file);
\* the path of entry k is as the loop left it when open failed and holds a
\* proper prefix of k's content when the write failed after open; no other
\* file is created or changed; a failure on the single-file path is
\* returned as an error message.
C6_FilesBeforeFailureAmended ==
    /\ \A k \in 1..Len(journal) :
           FailedAt(k) =>
               /\ result.kind = "raised"
               /\ \A q \in DOMAIN files \cup DOMAIN result.before
                               \cup {PathOf(i) : i \in 1..Len(journal)} :
                      IF q = PathOf(k) /\ result.call.fault.stage = "write"
                      THEN q \in DOMAIN files /\ IsProperPrefix(files[q], ContentOf(k))
                      ELSE IF WritersBefore(q, k) # {}
                      THEN q \in DOMAIN files
                               /\ files[q] = ContentOf(LastOf(WritersBefore(q, k)))
                      ELSE Unwritten(q)
    /\ SingleFileFailed =>
           result.kind = "returned" /\ Head(result.value) = "[ERROR: "

\* two entries sharing a path were written, then the write of a third
\* entry's file failed after open
C6_Witness ==
    /\ FailedAt(3)
    /\ PathOf(1) = PathOf(2)
    /\ ContentOf(1) # ContentOf(2)
    /\ PathOf(3) # PathOf(1)
    /\ result.call.fault.stage = "write"
    /\ result.kind = "raised"

Pending(j) == SelectSeq(GetTodos(j), LAMBDA t : ~t.is_complete)
Completed(j) == SelectSeq(GetTodos(j), LAMBDA t : t.is_complete)

\* the two headed sections, every todo once, in journal order
TodoSections(j) ==
    <<"=","=","=","=","=","=","=","\n">> \o PendingText
        \o <<"\n","=","=","=","=","=","=","=","\n">>
        \o Join([i \in 1..Len(Pending(j)) |-> Pending(j)[i].item], <<"\n">>)
        \o <<"\n","\n">>
        \o <<"=","=","=","=","=","=","=","=","=","\n">> \o CompletedText
        \o <<"\n","=","=","=","=","=","=","=","=","=","\n">>
        \o Join([i \in 1..Len(Completed(j)) |-> Completed(j)[i].item], <<"\n">>)

\* C10 as stated: for any journal to_todo_list renders a Pending section
\* then a Completed section, every todo once, under Pending exactly when
\* its flag is false, in journal order inside each section.
C10_TodoSections ==
    Called("to_todo_list") => result.value = TodoSections(journal)

\* C10, amended: for any journal with at least one todo, to_todo_list
\* renders a Pending section then a Completed section, every todo once,
\* under Pending exactly when its flag is false, in journal order inside
\* each section; for a journal without todos it returns the notice
\* "[No todos found in journal.]" and no section.
C10_TodoSectionsAmended ==
    Called("to_todo_list") =>
        IF GetTodos(journal) = <<>>
        THEN result.value = <<"[No todos found in journal.]">>
        ELSE result.value = TodoSections(journal)

\* pending and completed todos interleaved over several entries
C10_Witness ==
    /\ Called("to_todo_list")
    /\ Len(GetTodos(journal)) >= 3
    /\ GetTodos(journal)[1].is_complete
    /\ ~GetTodos(journal)[2].is_complete
    /\ GetTodos(journal)[3].is_complete

----------------------------------------------------------------------------
(* Properties of Entry *)

\* C7: the stored tags (and todos) are those of the title and body as they
\* were when they were last parsed, construction included: an assignment to
\* title or body leaves them alone and parse_data brings both up to date.
\* (parse_tags and parse_todos called on their own bring one of the two up
\* to date; each is compared with the text of its own last parse.)
C7_TagsOfLastParse ==
    entry # NoEntry =>
        /\ entry.tags = ParseTags(parsedText.tags[1], parsedText.tags[2],
                                  cfg.tagsymbols)
        /\ entry.todos = ParseEntryTodos(parsedText.todos[1], parsedText.todos[2])

\* after an assignment the stored tags are stale
C7_Witness ==
    /\ entry # NoEntry
    /\ assigns > 0
    /\ parsedText.tags = parsedText.todos
    /\ <<entry.title, entry.body>> # parsedText.tags
    /\ entry.tags # ParseTags(entry.title, entry.body, cfg.tagsymbols)

\* position p of the search text starts an occurrence: a whitespace
\* character, a tag symbol, a continuation character
StartsTag(text, tagsymbols, p) ==
    /\ p + 2 <= Len(text)
    /\ IsSpace(text[p])
    /\ text[p + 1] \in Range(tagsymbols)
    /\ IsTagChar(text[p + 2])

\* every occurrence, left to right, each with all its continuation characters
RECURSIVE Occurrences(_, _, _)
Occurrences(text, tagsymbols, p) ==
    IF p > Len(text) THEN <<>>
    ELSE (IF StartsTag(text, tagsymbols, p)
          THEN <<SubSeq(text, p + 1, TagEnd(text, p + 2))>>
          ELSE <<>>) \o Occurrences(text, tagsymbols, p + 1)

\* C8: for every title, body and tag symbols S, the tags are exactly the
\* tokens of the lower-cased " " + title + " " + body that follow a
\* whitespace character, start with a character of S and go on with one or
\* more of the word characters and -+*#/, all of them, left to right.
C8_TagExtraction ==
    entry # NoEntry =>
        entry.tags = Occurrences(GetFulltext(parsedText.tags[1], parsedText.tags[2]),
                                 cfg.tagsymbols, 1)

StrippedEntry(e) == [e EXCEPT !.title = RStrip(e.title), !.body = RStrip(e.body)]

\* C9: every rendering (__unicode__, pprint, to_md) of an entry equals the
\* rendering of the entry with the trailing spaces and newlines of its
\* title and body stripped.
C9_RenderingsStrip ==
    /\ rendered.op = "unicode" =>
           rendered.text = EntryUnicode(cfg, StrippedEntry(entry))
    /\ rendered.op = "pprint" =>
           rendered.text = EntryPprint(cfg, StrippedEntry(entry), rendered.short)
    /\ rendered.op = "to_md" =>
           rendered.text = EntryToMd(cfg, StrippedEntry(entry))

=============================================================================
